---- MODULE Spec2Model ----
(***************************************************************************)
(* The interactive spectral/spatial point explorer of the EMIT notebooks:  *)
(*   python/Exploring_EMIT_L2A_RFL.ipynb      (notebook "rfl")             *)
(*   unnamed/part_004, the workshop notebook  (notebook "ws")              *)
(* points_stream (a holoviews PointDraw stream with num_objects =          *)
(* POINT_LIMIT) holds the clicked points; every change of its data calls   *)
(* click_spectra, which samples emit_ds at every point, builds the overlay *)
(* of spectra and rewrites the id column.  Below the plot come the cells   *)
(* that export the points to a csv file; above it the cell that applies   *)
(* the quality mask to the cube.                                          *)
(* unnamed/part_005 is the ECOSTRESS notebook: the land surface            *)
(* temperature of the region of interest, its quality and cloud filters,  *)
(* the thermal explorer and the output raster.                            *)
(***************************************************************************)
EXTENDS Integers, Sequences, FiniteSets, TLC

VARIABLES
    notebook,   \* which of the two notebooks runs: "rfl" or "ws"
    data,       \* points_stream.data: the rows (x, y, id) in list order
    overlay,    \* the overlay click_dmap shows: one curve per rendered row
    raised,     \* TRUE when the last call of click_spectra raised
    created,    \* history: how many points were ever created
    dragged,    \* history: how many drags were handled
    removed,    \* history: how many points backspace removed
    lastOp,     \* history: the last event handled and the id of its marker
    sent,       \* history: the rows the stream handed to the last render
    hover,      \* posxy and the curve hover_dmap shows for it
    export,     \* the export cells: rows, the csv file, its directory, the outcome
    emit,       \* the EMIT cube and its quality mask, and a spectrum sampled from the cube
    eco,        \* the ECOSTRESS rasters of the region of interest and what is made of them
    rgb,        \* emit_rgb: the three bands taken from the cube for the map
    vineyard,   \* the vineyard click map: the SingleTap stream, clicked_values, the csv
    download    \* the granule download cell: the remote asset, the local file, the run

storeVars == <<notebook, data, overlay, raised, created, dragged, removed, lastOp, sent>>

otherVars == <<rgb, vineyard, download>>

vars == <<storeVars, hover, export, emit, eco, otherVars>>

----------------------------------------------------------------------------
(* Program constants *)

POINT_LIMIT == 10

\* hv.Cycle('Category20'): a cycle of 20 colours
CycleLen == 20

\* PointDraw pads the columns it does not set (here id) with its empty_value,
\* None by default; -1 stands for None.
EmptyValue == -1

(* Bounds of the model *)

\* points created in one session, the first point included
MaxCreated == 11

\* drags and removals in one session
MaxEdits == 2

\* pointer positions (longitude, latitude) of the taps and of the drag targets
TapLocations == {<<12, 28>>}
DragTargets == {<<12, 28>>, <<18, 29>>}

----------------------------------------------------------------------------
(* emit_ds: the gridded reflectance dataset *)

Longitude == <<10, 20>>
Latitude == <<30, 20>>
Wavelengths == <<440, 850>>

\* emit_ds['reflectance'][latitude index][longitude index]: one value per wavelength
reflectance ==
    [j \in 1..Len(Latitude) |->
        [i \in 1..Len(Longitude) |->
            [w \in 1..Len(Wavelengths) |-> 100 * j + 10 * i + w]]]

Dist(a, b) == IF a >= b THEN a - b ELSE b - a

(* sel(..., method="nearest") on one coordinate axis, as the index computes it:
   the position of the label before v in index order (pad) and of the label
   after it (backfill), 0 where there is none, and of the two the one at the
   smaller distance.  Position 0 stands for -1, which reads the last label. *)
is_monotonic_increasing(axis) ==
    \A i \in 1..(Len(axis) - 1) : axis[i] <= axis[i + 1]

SetMax(S) == CHOOSE m \in S : \A n \in S : n <= m
SetMin(S) == CHOOSE m \in S : \A n \in S : m <= n

pad(axis, v) ==
    LET S == {i \in 1..Len(axis) :
                 IF is_monotonic_increasing(axis) THEN axis[i] <= v ELSE axis[i] >= v}
    IN  IF S = {} THEN 0 ELSE SetMax(S)

backfill(axis, v) ==
    LET S == {i \in 1..Len(axis) :
                 IF is_monotonic_increasing(axis) THEN axis[i] >= v ELSE axis[i] <= v}
    IN  IF S = {} THEN 0 ELSE SetMin(S)

LabelAt(axis, i) == IF i = 0 THEN axis[Len(axis)] ELSE axis[i]

\* mutant: the label before v is taken, whatever its distance
get_nearest_indexer_pads(axis, v) == pad(axis, v)

get_nearest_indexer(axis, v) ==
    LET left == pad(axis, v)
        right == backfill(axis, v)
        left_distance == Dist(LabelAt(axis, left), v)
        right_distance == Dist(LabelAt(axis, right), v)
        op == IF is_monotonic_increasing(axis)
              THEN left_distance < right_distance
              ELSE left_distance <= right_distance
    IN  IF op \/ right = 0 THEN left ELSE right

\* ds.sel(longitude=x, latitude=y, method="nearest") on a cube ds[latitude][longitude];
\* a position that is not in the cube stands for the KeyError of sel
SelIn(ds, x, y) ==
    LET j == get_nearest_indexer(Latitude, y)
        i == get_nearest_indexer(Longitude, x)
    IN  IF j \in 1..Len(Latitude) /\ i \in 1..Len(Longitude)
        THEN ds[j][i]
        ELSE <<>>

\* emit_ds['reflectance'].sel(longitude=x, latitude=y, method="nearest")
sel(x, y) == SelIn(reflectance, x, y)

\* hover_spectra(x, y): the black curve of the pixel under the pointer
hover_spectra(x, y) == [x |-> x, y |-> y, series |-> sel(x, y)]

\* (latitude, longitude) of the centre pixel
scene_center ==
    <<Latitude[(Len(Latitude) \div 2) + 1], Longitude[(Len(Longitude) \div 2) + 1]>>

x_start == scene_center[2]
y_start == scene_center[1]

\* mutant: the session starts with a point in the north-west corner
first_point_in_corner == [x |-> Longitude[1], y |-> Latitude[1], id |-> 0, serial |-> 1]

\* serial is a history field: the creation number of the point
first_point == [x |-> x_start, y |-> y_start, id |-> 0, serial |-> 1]

----------------------------------------------------------------------------
(* The PointDraw tool acting on the rows of its data source.  The notebooks
   configure it with drag=True and num_objects=POINT_LIMIT: a tap on the map
   draws a point, a held marker is dragged or, with backspace, deleted, and
   num_objects is the number of points that can be drawn before the oldest
   one is dropped to make room for the new one. *)

\* mutant: the count of rows to drop is one too small
pop_glyphs_keeps_one_more(d, num_objects) ==
    LET drop == Len(d) - num_objects
    IN  IF num_objects = 0 \/ drop < 1 THEN d ELSE SubSeq(d, drop + 1, Len(d))

\* mutant: the count of rows to drop is one too large
pop_glyphs_drops_one_more(d, num_objects) ==
    LET drop == Len(d) - num_objects + 2
    IN  IF num_objects = 0 \/ drop < 1 THEN d ELSE SubSeq(d, drop + 1, Len(d))

\* drop rows from the front until fewer than num_objects are left
pop_glyphs(d, num_objects) ==
    LET drop == Len(d) - num_objects + 1
    IN  IF num_objects = 0 \/ drop < 1 THEN d ELSE SubSeq(d, drop + 1, Len(d))

\* mutant: a tap on a full store is ignored
PointDrawTap_rejects_when_full(d, c, s) ==
    IF Len(d) >= POINT_LIMIT
    THEN d
    ELSE Append(d, [x |-> c[1], y |-> c[2], id |-> EmptyValue, serial |-> s])

\* mutant: the new row is put in front of the list
PointDrawTap_inserts_in_front(d, c, s) ==
    <<[x |-> c[1], y |-> c[2], id |-> EmptyValue, serial |-> s]>>
        \o pop_glyphs(d, POINT_LIMIT)

\* a tap on the map where no marker is: a new row is pushed at the end
PointDrawTap(d, c, s) ==
    Append(pop_glyphs(d, POINT_LIMIT),
           [x |-> c[1], y |-> c[2], id |-> EmptyValue, serial |-> s])

\* mutant: the dragged row is taken out and pushed again at the end
PointDrawDrag_pushes_again(d, i, c) ==
    Append(SubSeq(d, 1, i - 1) \o SubSeq(d, i + 1, Len(d)),
           [d[i] EXCEPT !.x = c[1], !.y = c[2]])

\* a marker is dragged to c
PointDrawDrag(d, i, c) == [d EXCEPT ![i].x = c[1], ![i].y = c[2]]

\* mutant: backspace deletes the oldest row, whatever is selected
PointDrawDelete_deletes_oldest(d, selection) == Tail(d)

\* backspace with the rows of selection selected
PointDrawDelete(d, selection) ==
    LET keep(i) == i \notin selection
        F[n \in 0..Len(d)] ==
            IF n = 0 THEN <<>>
            ELSE IF keep(n) THEN Append(F[n - 1], d[n]) ELSE F[n - 1]
    IN  F[Len(d)]

----------------------------------------------------------------------------
(* click_spectra *)

color_cycle(i) == i % CycleLen

\* mutant: the colour is chosen by the creation number of the point
Curve_coloured_by_serial(i, row) ==
    [label |-> i, series |-> sel(row.x, row.y), color |-> color_cycle(row.serial - 1)]

\* mutant: the sample of every second curve is taken one cell further east
Curve_sampled_by_label(i, row) ==
    [label |-> i,
     series |-> sel(row.x + (i % 2) * (Longitude[2] - Longitude[1]), row.y),
     color |-> color_cycle(i)]

Curve(i, row) ==
    [label |-> i, series |-> sel(row.x, row.y), color |-> color_cycle(i)]

\* mutant: the id column is left as the stream sent it
RenumberIds_skipped(d) == d

\* points_stream.data["id"][i] = i, for every i of enumerate(coordinates)
\* mutant: every row gets id 0
RenumberIds_all_zero(d) == [i \in 1..Len(d) |-> [d[i] EXCEPT !.id = 0]]

\* mutant: the ids are counted from 1
RenumberIds_from_one(d) == [i \in 1..Len(d) |-> [d[i] EXCEPT !.id = i]]

RenumberIds(d) == [i \in 1..Len(d) |-> [d[i] EXCEPT !.id = i - 1]]

click_spectra(nb, d, shown) ==
    IF nb = "ws" /\ d = <<>>
    THEN \* coordinates.append(clicked_points[0][0], clicked_points[1][0]) raises
         [raised |-> TRUE, data |-> d, overlay |-> shown]
    ELSE [raised |-> FALSE,
          data |-> RenumberIds(d),
          overlay |-> [i \in 1..Len(d) |-> Curve(i - 1, d[i])]]

\* the stream sends its data; click_dmap calls click_spectra and shows the result
Event(d) ==
    LET r == click_spectra(notebook, d, overlay)
    IN  /\ data' = r.data
        /\ overlay' = r.overlay
        /\ raised' = r.raised
        /\ sent' = d

----------------------------------------------------------------------------

StoreInit ==
    /\ notebook \in {"rfl", "ws"}
    /\ data = <<first_point>>
    /\ sent = <<first_point>>
    /\ overlay = click_spectra(notebook, <<first_point>>, <<>>).overlay
    /\ raised = FALSE
    /\ created = 1
    /\ dragged = 0
    /\ removed = 0
    /\ lastOp = [op |-> "init", id |-> 0]

\* posxy = hv.streams.PointerXY(source=rgb_map, x=x_start, y=y_start)
HoverInit == hover = hover_spectra(x_start, y_start)

\* header of the export: the names of the id and coordinate columns, then str(i) of every wavelength
header(nb) ==
    (IF nb = "rfl" THEN <<"id", "longitude", "latitude">> ELSE <<"id", "x", "y">>)
        \o [w \in 1..Len(Wavelengths) |-> ToString(Wavelengths[w])]

\* mutant: the rows carry the id and the coordinates only
export_rows_without_spectra(nb, d) ==
    <<header(nb)>> \o [k \in 1..Len(d) |-> <<d[k].id, d[k].x, d[k].y>>]

\* the cell that builds rows: the header, then [i, x, y] + list(spectra) for every row of the stream
export_rows(nb, d) ==
    <<header(nb)>> \o
        [k \in 1..Len(d) |-> <<d[k].id, d[k].x, d[k].y>> \o sel(d[k].x, d[k].y)]

\* mutant: a missing directory is made (os.makedirs) before the file is opened
open_w_makes_directory(dir, file) ==
    IF dir = "file"
    THEN [error |-> "NotADirectoryError", file |-> file]
    ELSE [error |-> "none", file |-> <<>>]

\* open('../data/emit_click_data.csv', 'w'): truncates the file, or raises when ../data is no directory
open_w(dir, file) ==
    CASE dir = "directory" -> [error |-> "none", file |-> <<>>]
      [] dir = "missing" -> [error |-> "FileNotFoundError", file |-> file]
      [] dir = "file" -> [error |-> "NotADirectoryError", file |-> file]

\* the cell that writes the csv; in the workshop notebook its lines are commented out
write_csv(nb, ex) ==
    IF nb = "ws"
    THEN [ex EXCEPT !.pc = "write"]
    ELSE LET f == open_w(ex.dir, ex.csv)
         IN  [ex EXCEPT !.pc = "write",
                        !.attempts = @ + 1,
                        !.error = f.error,
                        !.csv = IF f.error = "none" THEN f.file \o ex.rows ELSE f.file]

\* the file of preselected points that comes with the workshop
PreselectedCsv(nb) == export_rows(nb, <<[x |-> 18, y |-> 29, id |-> 0]>>)

ExportIdle(dir, csv) ==
    [pc |-> "plot", rows |-> <<>>, csv |-> csv, dir |-> dir, error |-> "none", attempts |-> 0]

\* np.nan
nan == -1

\* the fill value of the mask file
MaskFill == -9999

\* mutant: every pixel that is not flagged clear is blanked
apply_mask_where_not_clear(ds, mask) ==
    [j \in 1..Len(ds) |-> [i \in 1..Len(ds[j]) |->
        IF mask[j][i] # 0
        THEN [w \in 1..Len(ds[j][i]) |-> nan]
        ELSE ds[j][i]]]

\* emit_ds.reflectance.data[mask.data == 1] = np.nan
apply_mask(ds, mask) ==
    [j \in 1..Len(ds) |-> [i \in 1..Len(ds[j]) |->
        IF mask[j][i] = 1
        THEN [w \in 1..Len(ds[j][i]) |-> nan]
        ELSE ds[j][i]]]

\* the values a pixel of the mask can have: clear, flagged, and the fill value,
\* which the cloud mask of Exploring_EMIT_L2A_RFL has turned into nan
MaskValues(nb) == {0, 1, IF nb = "rfl" THEN nan ELSE MaskFill}

EmitLoaded(mask) ==
    [pc |-> "loaded", reflectance |-> reflectance, mask |-> mask,
     sample |-> [x |-> x_start, y |-> y_start, series |-> <<>>]]

EmitIdle == EmitLoaded([j \in 1..Len(Latitude) |-> [i \in 1..Len(Longitude) |-> 0]])

\* width of the quality word
QcWidth == 16

RECURSIVE bin(_)
\* bin(num) without its prefix: the binary digits of num, most significant first
bin(num) ==
    IF num < 2
    THEN <<ToString(num)>>
    ELSE Append(bin(num \div 2), ToString(num % 2))

\* np.binary_repr(num, width) for num >= 0: bin(num), padded with zeros on the left to width
binary_repr(num, width) ==
    LET b == bin(num)
    IN  IF Len(b) >= width THEN b ELSE [k \in 1..(width - Len(b)) |-> "0"] \o b

\* s[-2:]
LastTwo(b) == SubSeq(b, Len(b) - 1, Len(b))

\* np.unique(raster.values).tolist()
unique(raster) == {raster[p] : p \in 1..Len(raster)}

\* mutant: the mandatory bits are read from the other end of the word
good_q_from_high_bits(quality_vals) ==
    {q \in quality_vals : SubSeq(binary_repr(q, QcWidth), 1, 2) = <<"0", "0">>}

\* good_q = [q for q in quality_vals if np.binary_repr(q, width=16)[-2:] == '00']
good_q(quality_vals) ==
    {q \in quality_vals : LastTwo(binary_repr(q, QcWidth)) = <<"0", "0">>}

\* raster.where(cond): the value where cond holds, nan elsewhere
where(raster, cond) ==
    [p \in 1..Len(raster) |-> IF cond[p] THEN raster[p] ELSE nan]

\* raster.isin(values)
isin(raster, values) == [p \in 1..Len(raster) |-> raster[p] \in values]

\* the positions in the search results from which the notebook takes its files
lst_index == 11
qc_index == 14
cl_index == 14
out_index == 14

\* lst_links[k], qc_links[k], cl_links[k]: the link to one layer of the k-th granule found;
\* the three lists run over the same results in the same order
links(layer, k) == [granule |-> k, layer |-> layer]

\* f"../data/{link.split('/')[-1].split('.tif')[0]}_clipped.tif"
clipped_name(link) == [granule |-> link.granule, layer |-> link.layer, suffix |-> "_clipped.tif"]

\* the statistics panel before the explorer is made
NoStats == [unit_label |-> "", valid_pixels |-> 0, minimum |-> nan, maximum |-> nan, note |-> ""]

EcoClipped(lst, qc, cl) ==
    [pc |-> "clipped", eco_lst_roi |-> lst, eco_qc_roi |-> qc, eco_cl_roi |-> cl,
     good_q |-> {}, eco_lst_roi_mask |-> <<>>, eco_lst_roi_mask_cloud |-> <<>>,
     base_data |-> <<>>, raster |-> <<>>,
     opened |-> [lst |-> links("LST.tif", lst_index),
                 qc |-> links("QC.tif", qc_index),
                 cl |-> links("cloud.tif", cl_index)],
     out_name |-> <<>>,
     unit |-> "", map |-> <<>>, stats |-> NoStats]

\* mutant: the map and the statistics are in Celsius whatever the unit
get_converted_data_in_celsius(base_data, unit) ==
    [converted_data |-> [p \in 1..Len(base_data) |->
                            IF base_data[p] = nan THEN nan ELSE (100 * base_data[p]) - 27315],
     unit_label |-> CASE unit = "Celsius" -> "C" [] unit = "Fahrenheit" -> "F" [] OTHER -> "K"]

\* get_converted_data(unit): kelvin to the unit, counted in hundredths of a degree;
\* nan stays nan.  The labels stand for the degree signs of the notebook.
get_converted_data(base_data, unit) ==
    CASE unit = "Celsius" ->
            [converted_data |-> [p \in 1..Len(base_data) |->
                IF base_data[p] = nan THEN nan ELSE (100 * base_data[p]) - 27315],
             unit_label |-> "C"]
      [] unit = "Fahrenheit" ->
            [converted_data |-> [p \in 1..Len(base_data) |->
                IF base_data[p] = nan THEN nan
                ELSE ((((100 * base_data[p]) - 27315) * 9) \div 5) + 3200],
             unit_label |-> "F"]
      [] OTHER ->
            [converted_data |-> [p \in 1..Len(base_data) |->
                IF base_data[p] = nan THEN nan ELSE 100 * base_data[p]],
             unit_label |-> "K"]

\* create_plot(unit): the image of the converted data
create_plot(base_data, unit) == get_converted_data(base_data, unit).converted_data

\* create_simple_stats(unit): statistics of the pixels that are not nan, or a note
create_simple_stats(base_data, unit) ==
    LET c == get_converted_data(base_data, unit)
        valid_data == SelectSeq(c.converted_data, LAMBDA v : v # nan)
        values == {valid_data[k] : k \in 1..Len(valid_data)}
    IN  IF Len(valid_data) > 0
        THEN [unit_label |-> c.unit_label,
              valid_pixels |-> Len(valid_data),
              minimum |-> SetMin(values),
              maximum |-> SetMax(values),
              note |-> ""]
        ELSE [unit_label |-> c.unit_label, valid_pixels |-> 0, minimum |-> nan,
              maximum |-> nan, note |-> "No valid data found after filtering"]

EcoIdle == EcoClipped(<<>>, <<>>, <<>>)

(* The RGB image of the map.  Reflectance is counted in thousandths: One is
   the reflectance 1.  Logarithm and power are computed in thousandths as
   well, from their series, so the results are those of math.log and
   np.power up to a few thousandths. *)
One == 1000

\* the wavelengths chosen for red, green and blue
RgbWavelengths == <<650, 560, 470>>

\* sel(wavelengths=[650, 560, 470], method='nearest'): the three bands of every pixel, copied
sel_wavelengths(ds) ==
    [j \in 1..Len(ds) |-> [i \in 1..Len(ds[j]) |->
        [c \in 1..Len(RgbWavelengths) |->
            ds[j][i][get_nearest_indexer(Wavelengths, RgbWavelengths[c])]]]]

RECURSIVE Ln(_)
\* math.log of y thousandths, in thousandths
Ln(y) ==
    IF y < 500 THEN Ln(2 * y) - 693
    ELSE IF y > 1000 THEN Ln(y \div 2) + 693
    ELSE LET z == ((y - 1000) * 1000) \div (y + 1000)
             z3 == (((z * z) \div 1000) * z) \div 1000
             z5 == (((z3 * z) \div 1000) * z) \div 1000
         IN  2 * (z + (z3 \div 3) + (z5 \div 5))

RECURSIVE Exp(_)
\* e to the power of t thousandths, in thousandths
Exp(t) ==
    IF t < 0 - 693 THEN Exp(t + 693) \div 2
    ELSE IF t > 0 THEN 2 * Exp(t - 693)
    ELSE LET t2 == (t * t) \div 2000
             t3 == (t2 * t) \div 3000
             t4 == (t3 * t) \div 4000
         IN  1000 + t + t2 + t3 + t4

\* np.power(x, gamma) for x >= 0
power(x, gamma) == IF x = 0 THEN 0 ELSE Exp((gamma * Ln(x)) \div 1000)

\* np.clip(v, 0, 1); nan stays nan
clip(v) == IF v = nan THEN nan ELSE IF v < 0 THEN 0 ELSE IF v > One THEN One ELSE v

\* the values of an image, pixel after pixel and band after band
Flat(array) ==
    LET rows == Len(array)
        cols == Len(array[1])
        bands == Len(array[1][1])
    IN  [k \in 1..(rows * cols * bands) |->
            array[((k - 1) \div (cols * bands)) + 1]
                 [(((k - 1) \div bands) % cols) + 1]
                 [((k - 1) % bands) + 1]]

RECURSIVE SeqSum(_)
SeqSum(q) == IF q = <<>> THEN 0 ELSE Head(q) + SeqSum(Tail(q))

\* bright: the default of Exploring_EMIT_L2A_RFL is 0.3, that of the workshop 0.2
bright(nb) == IF nb = "rfl" THEN 300 ELSE 200

\* the image gamma_adjust puts into rgb_da.data
gamma_scaled(nb, array) ==
    LET IsValid(v) == v # nan /\ v >= 0
        IsNumber(v) == v # nan
        counted == SelectSeq(Flat(array), LAMBDA v : IF nb = "rfl" THEN IsValid(v) ELSE IsNumber(v))
        none == counted = <<>>
        mean == IF none THEN nan ELSE SeqSum(counted) \div Len(counted)
        gamma == IF none THEN nan ELSE (Ln(bright(nb)) * 1000) \div Ln(mean)
        rfl(v) == IF none \/ ~IsValid(v) THEN nan ELSE clip(power(v, gamma))
        \* nan_to_num(array, nan=1) to the power nan_to_num(gamma, nan=1); a negative
        \* base gives nan, which white_background=True turns into 1
        ws(v) == IF v # nan /\ v < 0 THEN One
                 ELSE clip(power(IF v = nan THEN One ELSE v, IF none THEN 1000 ELSE gamma))
    IN  [j \in 1..Len(array) |-> [i \in 1..Len(array[j]) |->
            [c \in 1..Len(array[j][i]) |->
                IF nb = "rfl" THEN rfl(array[j][i][c]) ELSE ws(array[j][i][c])]]]

\* mutant: the scaled values are written into the bands of the cube the image was taken from
gamma_adjust_in_place(nb, ds, array) ==
    LET scaled == gamma_scaled(nb, array)
    IN  [ds |-> [j \in 1..Len(ds) |-> [i \in 1..Len(ds[j]) |->
                    [w \in 1..Len(ds[j][i]) |->
                        IF \E c \in 1..Len(RgbWavelengths) :
                              get_nearest_indexer(Wavelengths, RgbWavelengths[c]) = w
                        THEN scaled[j][i]
                                [CHOOSE c \in 1..Len(RgbWavelengths) :
                                    get_nearest_indexer(Wavelengths, RgbWavelengths[c]) = w]
                        ELSE ds[j][i][w]]]],
         data |-> scaled]

\* gamma_adjust(emit_rgb): a new array is computed and bound to rgb_da.data;
\* ds is the cube the image was taken from
gamma_adjust(nb, ds, array) == [ds |-> ds, data |-> gamma_scaled(nb, array)]

\* emit_rgb before the bands are selected
RgbIdle == [pc |-> "none", data |-> <<>>]

(* The vineyard notebook: four rasters of the vineyards on one grid, a
   SingleTap stream shared by the four maps, the log of the clicked values
   and the cell that saves the log.  None is EmptyValue. *)
vineyard_raster(offset) ==
    [j \in 1..Len(Latitude) |-> [i \in 1..Len(Longitude) |-> offset + (10 * j) + i]]

NDVI_vineyard_projected == vineyard_raster(1000)
ST_vineyard_projected == vineyard_raster(2000)
ET_vineyard_projected == vineyard_raster(3000)
EWT_vineyard_projected == vineyard_raster(4000)

\* raster.sel(x=x, y=y, method="nearest").values
sel_value(raster, x, y) ==
    raster[get_nearest_indexer(Latitude, y)][get_nearest_indexer(Longitude, x)]

\* mutant: the log holds the last click only
interactive_click_keeps_the_last(x, y, clicked_values) ==
    IF EmptyValue \notin {x, y}
    THEN <<[Lon |-> x, Lat |-> y,
            NDVI |-> sel_value(NDVI_vineyard_projected, x, y),
            ST |-> sel_value(ST_vineyard_projected, x, y),
            ET |-> sel_value(ET_vineyard_projected, x, y),
            EWT |-> sel_value(EWT_vineyard_projected, x, y)]>>
    ELSE clicked_values

\* interactive_click(x, y): clicked_values after the call
interactive_click(x, y, clicked_values) ==
    IF EmptyValue \notin {x, y}
    THEN Append(clicked_values,
                [Lon |-> x, Lat |-> y,
                 NDVI |-> sel_value(NDVI_vineyard_projected, x, y),
                 ST |-> sel_value(ST_vineyard_projected, x, y),
                 ET |-> sel_value(ET_vineyard_projected, x, y),
                 EWT |-> sel_value(EWT_vineyard_projected, x, y)])
    ELSE clicked_values

\* pd.DataFrame(clicked_values).to_csv(..., index=False): the keys, then one line per record
to_csv(clicked_values) ==
    <<<<"Lon", "Lat", "NDVI", "ST", "ET", "EWT">>>> \o
        [k \in 1..Len(clicked_values) |->
            <<clicked_values[k].Lon, clicked_values[k].Lat, clicked_values[k].NDVI,
              clicked_values[k].ST, clicked_values[k].ET, clicked_values[k].EWT>>]

\* mutant: the file is written whatever the log holds
save_clicked_values_always(v) ==
    [v EXCEPT !.csv = to_csv(v.clicked_values),
              !.printed = "Clicked values saved to 'clicked_values.csv'",
              !.saves = @ + 1]

\* the cell that saves the clicked values
save_clicked_values(v) ==
    IF v.clicked_values # <<>>
    THEN [v EXCEPT !.csv = to_csv(v.clicked_values),
                   !.printed = "Clicked values saved to 'clicked_values.csv'",
                   !.saves = @ + 1]
    ELSE [v EXCEPT !.printed = "No clicked values to save.",
                   !.saves = @ + 1]

\* a clicked_values.csv left by an earlier session
OldCsv == to_csv(<<[Lon |-> 18, Lat |-> 29, NDVI |-> 0, ST |-> 0, ET |-> 0, EWT |-> 0]>>)

\* stream = SingleTap(); clicked_values = []; the layout is not yet displayed
VineyardIdle(csv) ==
    [x |-> EmptyValue, y |-> EmptyValue, clicked_values |-> <<>>, csv |-> csv,
     printed |-> "", saves |-> 0, calls |-> 0]

\* a local file that does not exist
NoFile == [exists |-> FALSE, content |-> <<>>]

\* the download cell has not run; the local file is there or not
DownloadIdle(remote, file) ==
    [pc |-> "idle", remote |-> remote, file |-> file, runs |-> 0, opened |-> 0]

OtherIdle ==
    /\ rgb = RgbIdle
    /\ vineyard = VineyardIdle(<<>>)
    /\ download = DownloadIdle(<<>>, NoFile)

Init ==
    /\ StoreInit
    /\ HoverInit
    /\ export = ExportIdle("directory", <<>>)
    /\ emit = EmitIdle
    /\ eco = EcoIdle
    /\ OtherIdle

Tap(c) ==
    /\ created < MaxCreated
    /\ Event(PointDrawTap(data, c, created + 1))
    /\ created' = created + 1
    /\ lastOp' = [op |-> "tap", id |-> EmptyValue]
    /\ UNCHANGED <<notebook, dragged, removed>>

Drag(i, c) ==
    /\ dragged + removed < MaxEdits
    /\ i \in 1..Len(data)
    /\ c # <<data[i].x, data[i].y>>
    /\ Event(PointDrawDrag(data, i, c))
    /\ dragged' = dragged + 1
    /\ lastOp' = [op |-> "drag", id |-> data[i].id]
    /\ UNCHANGED <<notebook, created, removed>>

\* the rows of d a press on the marker labelled k selects
Selected(d, k) == {i \in 1..Len(d) : d[i].id = k}

\* the marker labelled k is held and backspace is pressed
Remove(k) ==
    LET selection == Selected(data, k)
    IN  IF selection = {}
        THEN UNCHANGED storeVars
        ELSE /\ dragged + removed < MaxEdits
             /\ Event(PointDrawDelete(data, selection))
             /\ removed' = removed + Cardinality(selection)
             /\ lastOp' = [op |-> "remove", id |-> k]
             /\ UNCHANGED <<notebook, created, dragged>>

\* the pointer moves over the map: posxy fires and hover_dmap draws the curve
Hover(x, y) == hover' = hover_spectra(x, y)

StoreNext ==
    \/ \E c \in TapLocations : Tap(c)
    \/ \E i \in 1..POINT_LIMIT, c \in DragTargets : Drag(i, c)
    \/ \E k \in 0..(POINT_LIMIT - 1) : Remove(k)

Next == StoreNext /\ UNCHANGED <<hover, export, emit, eco, otherVars>>

Spec == Init /\ [][Next]_vars

----------------------------------------------------------------------------
(* The sampler alone: the pointer moves over and around the scene *)

HoverXs == {5, 8, 10, 12, 14, 15, 16, 18, 20, 22, 25}
HoverYs == {15, 18, 20, 22, 24, 25, 26, 28, 30, 32, 35}

SamplerInit == Init /\ notebook = "rfl"

SamplerNext ==
    /\ \E x \in HoverXs, y \in HoverYs : Hover(x, y)
    /\ UNCHANGED <<storeVars, export, emit, eco, otherVars>>

SpecSampler == SamplerInit /\ [][SamplerNext]_vars

----------------------------------------------------------------------------
(* Vocabulary of the properties *)

Serials(d) == {d[i].serial : i \in 1..Len(d)}

\* points the tool dropped to make room, never removed by the user
Evicted == created - removed - Len(data)

\* rows listed before row i of d that are no longer in e
GoneBefore(d, e, i) == Cardinality({k \in 1..(i - 1) : d[k].serial \notin Serials(e)})

\* the row of the same point before (row i of data) and after (row j of data') a step
SamePoint(i, j) ==
    /\ i \in 1..Len(data)
    /\ j \in 1..Len(data')
    /\ data[i].serial = data'[j].serial

----------------------------------------------------------------------------
(* C1: after any sequence of taps, drags and removals the store never holds
   more than POINT_LIMIT points. *)
C1_NeverMoreThanPointLimit == Len(data) <= POINT_LIMIT

\* an eleventh point was tapped onto a store that held POINT_LIMIT points
C1_Witness ==
    /\ lastOp.op = "tap"
    /\ created = POINT_LIMIT + 1
    /\ removed = 0
    /\ Len(data) = POINT_LIMIT

(* C2, as claimed: with POINT_LIMIT points in the store, a tap that would
   create a point changes nothing: points, ids, coordinates and order stay,
   and the oldest point is not evicted. *)
C2_TapOnFullStoreIsNoOp ==
    [][(Len(data) = POINT_LIMIT /\ lastOp'.op = "tap") => data' = data]_vars

(* C2, amended: with POINT_LIMIT points in the store, a tap that creates a
   point drops the oldest point (the first of the list) and puts the new point
   at the end; the store still holds POINT_LIMIT points and the other points
   keep their coordinates and their order, each moving one place forward. *)
C2_TapOnFullStoreDropsOldest ==
    [][(Len(data) = POINT_LIMIT /\ lastOp'.op = "tap") =>
          /\ Len(data') = POINT_LIMIT
          /\ data[1].serial \notin Serials(data')
          /\ data'[POINT_LIMIT].serial \notin Serials(data)
          /\ \A j \in 1..(POINT_LIMIT - 1) :
                /\ data'[j].serial = data[j + 1].serial
                /\ data'[j].x = data[j + 1].x
                /\ data'[j].y = data[j + 1].y]_vars

\* the first point went without any removal: the tap on the full store dropped it
C2_Witness ==
    /\ lastOp.op = "tap"
    /\ removed = 0
    /\ Evicted = 1
    /\ Len(data) = POINT_LIMIT
    /\ data[1].serial = 2

(* C3: a drag changes the coordinates of the dragged point only: its id, the
   number of points, and the ids, coordinates and order of the other points
   stay; a full store does not stop the drag. *)
C3_DragMovesOnlyThatPoint ==
    [][lastOp'.op = "drag" =>
          \E i \in 1..Len(data) :
              /\ data[i].id = lastOp'.id
              /\ Len(data') = Len(data)
              /\ data'[i].id = data[i].id
              /\ data'[i].serial = data[i].serial
              /\ <<data'[i].x, data'[i].y>> # <<data[i].x, data[i].y>>
              /\ <<data'[i].x, data'[i].y>> \in DragTargets
              /\ \A j \in 1..Len(data) : j # i => data'[j] = data[j]]_vars

\* the last marker of a full store has just been dragged
C3_Witness ==
    /\ lastOp = [op |-> "drag", id |-> POINT_LIMIT - 1]
    /\ Len(data) = POINT_LIMIT
    /\ <<data[POINT_LIMIT].x, data[POINT_LIMIT].y>> = <<18, 29>>

(* C4, as claimed: the id of a point never changes between its creation and
   its removal; removing an earlier point does not renumber the later ones. *)
C4_IdNeverChanges ==
    [][\A i \in 1..Len(data), j \in 1..Len(data') :
          SamePoint(i, j) => data'[j].id = data[i].id]_vars

(* C4, amended: after every render the id of a point is its place in the
   list, counted from 0: taps below the limit, drags and the removal of a
   later point leave it as it was, and every removal or eviction of a point
   listed before it lowers it by one. *)
C4_IdFollowsPlaceInList ==
    [][\A i \in 1..Len(data), j \in 1..Len(data') :
          SamePoint(i, j) =>
              /\ data'[j].id = j - 1
              /\ data'[j].id = data[i].id - GoneBefore(data, data', i)]_vars

\* the only removal so far has just renumbered a point created after the removed one
C4_Witness ==
    /\ lastOp.op = "remove"
    /\ removed = 1
    /\ Evicted = 0
    /\ \E i \in 1..Len(data) : data[i].serial = i + 1 /\ data[i].id = i - 1

(* C5, as claimed: the colour of the curve of a point is the same in every
   render from its creation to its removal, whatever happens to other points. *)
C5_ColourNeverChanges ==
    [][(~raised /\ ~raised') =>
          \A i \in 1..Len(data), j \in 1..Len(data') :
              SamePoint(i, j) => overlay'[j].color = overlay[i].color]_vars

(* C5, amended: the colour of the curve of a point is the colour of the cycle
   at the point's place in the list: taps below the limit, drags and the
   removal of later points leave it as it was, and every removal or eviction
   of a point listed before it moves it one colour back in the cycle. *)
C5_ColourFollowsPlaceInList ==
    [][(~raised /\ ~raised') =>
          \A i \in 1..Len(data), j \in 1..Len(data') :
              SamePoint(i, j) =>
                  /\ overlay'[j].label = data'[j].id
                  /\ overlay'[j].color = color_cycle(j - 1)
                  /\ overlay'[j].color =
                         color_cycle(overlay[i].color - GoneBefore(data, data', i))]_vars

\* the only removal so far has just given a later point the colour before its own
C5_Witness ==
    /\ lastOp.op = "remove"
    /\ ~raised
    /\ removed = 1
    /\ Evicted = 0
    /\ \E i \in 1..Len(data) :
          data[i].serial = i + 1 /\ overlay[i].color = color_cycle(data[i].serial - 2)

(* C6: a render of the empty store gives an overlay without curves and
   raises no error. *)
C6_EmptyStoreRendersNoCurves ==
    data = <<>> => (~raised /\ overlay = <<>>)

(* C7: after every rendered change of the store the overlay holds one curve
   per point of the store, each the series sampled at the point's current
   coordinates: no curve of a removed point, no stale curve of a moved one. *)
C7_OverlayShowsTheStore ==
    /\ Len(overlay) = Len(data)
    /\ \A i \in 1..Len(data) : overlay[i].series = sel(data[i].x, data[i].y)

\* the rows that the store holds once the marker labelled k is removed from d
AfterRemove(nb, d, k) ==
    IF Selected(d, k) = {}
    THEN d
    ELSE click_spectra(nb, PointDrawDelete(d, Selected(d, k)), <<>>).data

(* C8, as claimed: remove(id) deletes the point with that id and leaves every
   other point as it was, and does nothing when no point has the id, so that
   remove(id) applied twice gives what remove(id) applied once gives. *)
C8_RemoveTwiceIsRemoveOnce ==
    \A k \in 0..(POINT_LIMIT - 1) :
        AfterRemove(notebook, AfterRemove(notebook, data, k), k)
            = AfterRemove(notebook, data, k)

(* C8, amended: remove(id) deletes the point with that id and no other, and
   leaves the coordinates and the order of every other point as they were;
   the points listed before it keep their ids and every point listed after it
   has its id lowered by one, so that the next point in the list, if any, now
   carries that id; remove(id) changes nothing when no point has the id. *)
C8_RemoveDeletesThatPointAndRenumbers ==
    /\ [][lastOp'.op = "remove" =>
            LET i == lastOp'.id + 1
            IN  /\ i \in 1..Len(data)
                /\ data[i].id = lastOp'.id
                /\ Len(data') = Len(data) - 1
                /\ \A j \in 1..Len(data') :
                      data'[j] = IF j < i THEN data[j]
                                 ELSE [data[j + 1] EXCEPT !.id = @ - 1]]_vars
    /\ [](\A k \in 0..(POINT_LIMIT - 1) :
            Selected(data, k) = {} => AfterRemove(notebook, data, k) = data)

\* the point with id 1 has just been removed and the next point of the list has id 1 now
C8_Witness ==
    /\ lastOp = [op |-> "remove", id |-> 1]
    /\ removed = 1
    /\ Evicted = 0
    /\ Len(data) >= 2
    /\ data[2].id = 1
    /\ data[2].serial = 3

(* C9: the store lists its points in the order of their creation; a drag or
   the removal of another point never changes the order of the points left. *)
C9_ListedInCreationOrder ==
    \A i, j \in 1..Len(data) : i < j => data[i].serial < data[j].serial

\* a point between two others was removed and one was dragged
C9_Witness ==
    /\ removed >= 1
    /\ dragged >= 1
    /\ Len(data) >= 3
    /\ \E i \in 2..Len(data) : data[i].serial > data[i - 1].serial + 1

\* a step has put into the store a point that was not in it
NewPoint ==
    /\ data' # <<>>
    /\ data'[Len(data')].serial \notin Serials(data)

(* C10, as claimed: a tap creates a point exactly when fewer than
   POINT_LIMIT points are in the store. *)
C10_TapCreatesOnlyBelowLimit ==
    [][lastOp'.op = "tap" => (NewPoint <=> Len(data) < POINT_LIMIT)]_vars

(* C10, amended: every tap on the map creates a point, whether the store is
   full or not: below POINT_LIMIT the points already there all stay and the
   count grows by one (so the tap that follows a removal from a full store
   adds a point and drops none), and at POINT_LIMIT the count stays. *)
C10_TapAlwaysCreates ==
    [][lastOp'.op = "tap" =>
          /\ NewPoint
          /\ Len(data') = (IF Len(data) < POINT_LIMIT THEN Len(data) + 1 ELSE POINT_LIMIT)
          /\ Len(data) < POINT_LIMIT =>
                \A i \in 1..Len(data) :
                    /\ data'[i].serial = data[i].serial
                    /\ data'[i].x = data[i].x
                    /\ data'[i].y = data[i].y]_vars

\* the tenth point was removed from the full store and the next tap created the eleventh
C10_Witness ==
    /\ lastOp.op = "tap"
    /\ created = POINT_LIMIT + 1
    /\ removed = 1
    /\ Len(data) = POINT_LIMIT
    /\ data[POINT_LIMIT - 1].serial = POINT_LIMIT - 1
    /\ data[POINT_LIMIT].serial = POINT_LIMIT + 1

----------------------------------------------------------------------------
(* The export cells below the plot.  The plot stays live while they run: the
   user may go back to it between and after them.  Each cell runs once. *)

ExportMaxCreated == 2

ExportInit ==
    /\ StoreInit
    /\ HoverInit
    /\ \E dir \in {"directory", "missing", "file"} :
       \E csv \in {<<>>, PreselectedCsv(notebook)} :
          /\ dir # "directory" => csv = <<>>
          /\ export = ExportIdle(dir, csv)
    /\ emit = EmitIdle
    /\ eco = EcoIdle
    /\ OtherIdle

\* mutant: every render saves the points
StoreStep_autosaves ==
    /\ StoreNext
    /\ created' <= ExportMaxCreated
    /\ export' = [export EXCEPT !.csv = export_rows(notebook, data')]
    /\ UNCHANGED <<hover, emit, eco, otherVars>>

\* an event of the plot: click_spectra does no file I/O
StoreStep ==
    /\ StoreNext
    /\ created' <= ExportMaxCreated
    /\ UNCHANGED <<hover, export, emit, eco, otherVars>>

HoverStep ==
    /\ \E x \in {Longitude[1], Longitude[2]} : Hover(x, y_start)
    /\ UNCHANGED <<storeVars, export, emit, eco, otherVars>>

BuildRows ==
    /\ export.pc = "plot"
    /\ export' = [export EXCEPT !.pc = "rows", !.rows = export_rows(notebook, data)]
    /\ UNCHANGED <<storeVars, hover, emit, eco, otherVars>>

WriteCsv ==
    /\ export.pc = "rows"
    /\ export' = write_csv(notebook, export)
    /\ UNCHANGED <<storeVars, hover, emit, eco, otherVars>>

ExportNext == StoreStep \/ HoverStep \/ BuildRows \/ WriteCsv

SpecExport == ExportInit /\ [][ExportNext]_vars

----------------------------------------------------------------------------
(* The quality mask of the EMIT scene: the mask is read, applied to the cube,
   and spectra are sampled from the masked cube *)

MaskInit ==
    /\ StoreInit
    /\ HoverInit
    /\ export = ExportIdle("directory", <<>>)
    /\ emit \in {EmitLoaded(mask) :
                    mask \in [1..Len(Latitude) -> [1..Len(Longitude) -> MaskValues(notebook)]]}
    /\ eco = EcoIdle
    /\ OtherIdle

ApplyMask ==
    /\ emit.pc = "loaded"
    /\ emit' = [emit EXCEPT !.pc = "masked",
                            !.reflectance = apply_mask(emit.reflectance, emit.mask)]
    /\ UNCHANGED <<storeVars, hover, export, eco, otherVars>>

\* a spectrum is read from the masked cube, as click_spectra and hover_spectra do
SampleMasked(x, y) ==
    /\ emit.pc = "masked"
    /\ emit' = [emit EXCEPT !.sample = [x |-> x, y |-> y, series |-> SelIn(emit.reflectance, x, y)]]
    /\ UNCHANGED <<storeVars, hover, export, eco, otherVars>>

MaskNext ==
    \/ ApplyMask
    \/ \E c \in DragTargets : SampleMasked(c[1], c[2])

SpecMask == MaskInit /\ [][MaskNext]_vars

----------------------------------------------------------------------------
(* The RGB image: after the mask, three bands are taken from the cube and
   gamma-adjusted for the map; spectra are sampled from the cube all along *)

SelectRgb ==
    /\ emit.pc = "masked"
    /\ rgb.pc = "none"
    /\ rgb' = [pc |-> "selected", data |-> sel_wavelengths(emit.reflectance)]
    /\ UNCHANGED <<storeVars, hover, export, emit, eco, vineyard, download>>

GammaAdjust ==
    /\ rgb.pc = "selected"
    /\ LET r == gamma_adjust(notebook, emit.reflectance, rgb.data)
       IN  /\ rgb' = [pc |-> "adjusted", data |-> r.data]
           /\ emit' = [emit EXCEPT !.reflectance = r.ds]
    /\ UNCHANGED <<storeVars, hover, export, eco, vineyard, download>>

RgbNext ==
    \/ ApplyMask
    \/ \E c \in DragTargets : SampleMasked(c[1], c[2])
    \/ SelectRgb
    \/ GammaAdjust

SpecRgb == MaskInit /\ [][RgbNext]_vars

----------------------------------------------------------------------------
(* The vineyard click map: the layout is displayed, the maps are tapped, and
   the cell that saves the log is run, any number of times in between *)

MaxClicks == 3
MaxSaves == 2

VineyardTaps == {<<12, 28>>, <<18, 29>>, <<18, 22>>, <<25, 15>>}

VineyardInit ==
    /\ StoreInit
    /\ notebook = "rfl"
    /\ HoverInit
    /\ export = ExportIdle("directory", <<>>)
    /\ emit = EmitIdle
    /\ eco = EcoIdle
    /\ rgb = RgbIdle
    /\ vineyard \in {VineyardIdle(<<>>), VineyardIdle(OldCsv)}
    /\ download = DownloadIdle(<<>>, NoFile)

\* the layout is displayed: the DynamicMap calls interactive_click with the
\* stream as it was made, x = None and y = None
DisplayLayout ==
    /\ vineyard.calls = 0
    /\ vineyard' = [vineyard EXCEPT
            !.calls = 1,
            !.clicked_values = interactive_click(vineyard.x, vineyard.y, vineyard.clicked_values)]
    /\ UNCHANGED <<storeVars, hover, export, emit, eco, rgb, download>>

\* a tap on one of the maps: the stream takes its coordinates and the DynamicMap
\* calls interactive_click with them
VineyardTap(c) ==
    /\ vineyard.calls >= 1
    /\ Len(vineyard.clicked_values) < MaxClicks
    /\ vineyard' = [vineyard EXCEPT
            !.x = c[1],
            !.y = c[2],
            !.calls = @ + 1,
            !.clicked_values = interactive_click(c[1], c[2], vineyard.clicked_values)]
    /\ UNCHANGED <<storeVars, hover, export, emit, eco, rgb, download>>

SaveClickedValues ==
    /\ vineyard.saves < MaxSaves
    /\ vineyard' = save_clicked_values(vineyard)
    /\ UNCHANGED <<storeVars, hover, export, emit, eco, rgb, download>>

VineyardNext ==
    \/ DisplayLayout
    \/ \E c \in VineyardTaps : VineyardTap(c)
    \/ SaveClickedValues

SpecVineyard == VineyardInit /\ [][VineyardNext]_vars

----------------------------------------------------------------------------
(* The download cell of the vineyard notebook.  The remote asset is a
   sequence of chunks; the cell may be run again after it has finished or
   after it was interrupted (the kernel is interrupted, the connection
   breaks) while the chunks were being written. *)

MaxChunks == 5
MaxRuns == 4

chunks(n) == [k \in 1..n |-> k]

DownloadInit ==
    /\ StoreInit
    /\ notebook = "rfl"
    /\ HoverInit
    /\ export = ExportIdle("directory", <<>>)
    /\ emit = EmitIdle
    /\ eco = EcoIdle
    /\ rgb = RgbIdle
    /\ vineyard = VineyardIdle(<<>>)
    /\ \E n \in 1..MaxChunks :
       \E file \in {NoFile, [exists |-> TRUE, content |-> chunks(n)]} :
          download = DownloadIdle(chunks(n), file)

\* the cell is run: if not os.path.isfile(fp), the file is opened with 'wb'
RunDownloadCell ==
    /\ download.pc \in {"idle", "finished", "interrupted"}
    /\ download.runs < MaxRuns
    /\ download' =
          IF download.file.exists
          THEN [download EXCEPT !.pc = "finished", !.runs = @ + 1]
          ELSE [download EXCEPT !.pc = "downloading", !.runs = @ + 1, !.opened = @ + 1,
                                !.file = [exists |-> TRUE, content |-> <<>>]]
    /\ UNCHANGED <<storeVars, hover, export, emit, eco, rgb, vineyard>>

\* dst.write(chunk) for the next chunk of the response; after the last one the cell is done
WriteChunk ==
    /\ download.pc = "downloading"
    /\ LET written == Append(download.file.content,
                             download.remote[Len(download.file.content) + 1])
       IN  download' = [download EXCEPT
                !.file = [exists |-> TRUE, content |-> written],
                !.pc = IF written = download.remote THEN "finished" ELSE "downloading"]
    /\ UNCHANGED <<storeVars, hover, export, emit, eco, rgb, vineyard>>

\* the run ends with an exception before the last chunk is written; the with
\* statements close the file, which stays as far as it was written
InterruptDownload ==
    /\ download.pc = "downloading"
    /\ download' = [download EXCEPT !.pc = "interrupted"]
    /\ UNCHANGED <<storeVars, hover, export, emit, eco, rgb, vineyard>>

DownloadNext == RunDownloadCell \/ WriteChunk \/ InterruptDownload

SpecDownload == DownloadInit /\ [][DownloadNext]_vars

----------------------------------------------------------------------------
(* The ECOSTRESS notebook: the land surface temperature, the quality word and
   the cloud mask of the region of interest, the two filters, the thermal
   explorer and the output raster, cell after cell *)

EcoPixels == 2

\* quality words with each value of the two mandatory bits, one of them with a high bit set
QualityWords == {0, 1, 2, 3, 32772}

\* what a pixel of the clipped temperature raster can hold: nothing, or kelvin
LstValues == {nan, 300}

EcoInit ==
    /\ StoreInit
    /\ notebook = "ws"
    /\ HoverInit
    /\ export = ExportIdle("directory", <<>>)
    /\ emit = EmitIdle
    /\ \E lst \in [1..EcoPixels -> LstValues] :
       \E qc \in [1..EcoPixels -> QualityWords] :
       \E cl \in [1..EcoPixels -> {0, 1}] :
          eco = EcoClipped(lst, qc, cl)
    /\ OtherIdle

QualityFilter ==
    /\ eco.pc = "clipped"
    /\ LET good == good_q(unique(eco.eco_qc_roi))
       IN  eco' = [eco EXCEPT !.pc = "quality",
                              !.good_q = good,
                              !.eco_lst_roi_mask = where(eco.eco_lst_roi, isin(eco.eco_qc_roi, good))]
    /\ UNCHANGED <<storeVars, hover, export, emit, otherVars>>

CloudFilter ==
    /\ eco.pc = "quality"
    /\ eco' = [eco EXCEPT !.pc = "cloud",
                          !.eco_lst_roi_mask_cloud =
                              where(eco.eco_lst_roi_mask, isin(eco.eco_cl_roi, {0}))]
    /\ UNCHANGED <<storeVars, hover, export, emit, otherVars>>

\* create_simple_thermal_explorer(): base_data = eco_lst_roi_mask
ThermalExplorer ==
    /\ eco.pc = "cloud"
    /\ eco' = [eco EXCEPT !.pc = "explorer",
                          !.base_data = eco.eco_lst_roi_mask,
                          !.unit = "Celsius",
                          !.map = create_plot(eco.eco_lst_roi_mask, "Celsius"),
                          !.stats = create_simple_stats(eco.eco_lst_roi_mask, "Celsius")]
    /\ UNCHANGED <<storeVars, hover, export, emit, otherVars>>

\* eco_lst_roi_mask.rio.to_raster(raster_path=out_name, driver='COG')
WriteRaster ==
    /\ eco.pc = "explorer"
    /\ eco' = [eco EXCEPT !.pc = "written",
                          !.raster = eco.eco_lst_roi_mask,
                          !.out_name = clipped_name(links("LST.tif", out_index))]
    /\ UNCHANGED <<storeVars, hover, export, emit, otherVars>>

\* temp_unit changes: interactive_plot and interactive_stats run again
SelectUnit(unit) ==
    /\ eco.pc \in {"explorer", "written"}
    /\ unit # eco.unit
    /\ eco' = [eco EXCEPT !.unit = unit,
                          !.map = create_plot(eco.base_data, unit),
                          !.stats = create_simple_stats(eco.base_data, unit)]
    /\ UNCHANGED <<storeVars, hover, export, emit, otherVars>>

EcoNext ==
    \/ QualityFilter
    \/ CloudFilter
    \/ ThermalExplorer
    \/ WriteRaster
    \/ \E unit \in {"Celsius", "Fahrenheit", "Kelvin"} : SelectUnit(unit)

SpecEco == EcoInit /\ [][EcoNext]_vars

----------------------------------------------------------------------------
\* position i of axis holds a label at the smallest distance from v
IsNearest(axis, i, v) ==
    /\ i \in 1..Len(axis)
    /\ \A j \in 1..Len(axis) : Dist(axis[i], v) <= Dist(axis[j], v)

\* the step is the run of the cell that builds rows
RowsCellRuns == export.pc = "plot" /\ export'.pc = "rows"

\* the step is the run of the cell that writes the csv
WriteCellRuns == export.pc = "rows" /\ export'.pc = "write"

(* C11: the rows built for the export are a header row (id, x, y and one
   label for every entry of the value axis) and exactly one row for every
   point of the store, in the order of the store, with the point's id, its
   coordinates and its whole series; every row has as many fields as the
   header, and with no point the header row stands alone. *)
C11_ExportIsHeaderAndOneRowPerPoint ==
    [][RowsCellRuns =>
        LET rows == export'.rows
        IN  /\ Len(rows) = 1 + Len(data)
            /\ Len(rows[1]) = 3 + Len(Wavelengths)
            /\ rows[1][1] = "id"
            /\ <<rows[1][2], rows[1][3]>> \in {<<"longitude", "latitude">>, <<"x", "y">>}
            /\ \A w \in 1..Len(Wavelengths) : rows[1][3 + w] = ToString(Wavelengths[w])
            /\ \A k \in 1..Len(data) :
                  /\ Len(rows[k + 1]) = Len(rows[1])
                  /\ rows[k + 1][1] = data[k].id
                  /\ rows[k + 1][2] = data[k].x
                  /\ rows[k + 1][3] = data[k].y
                  /\ \E j \in 1..Len(Latitude), i \in 1..Len(Longitude) :
                        /\ IsNearest(Latitude, j, data[k].y)
                        /\ IsNearest(Longitude, i, data[k].x)
                        /\ SubSeq(rows[k + 1], 4, Len(rows[k + 1])) = reflectance[j][i]]_vars

\* the rows were built for a store of two points in different cells
C11_Witness ==
    /\ export.pc = "rows"
    /\ Len(data) = 2
    /\ Len(export.rows) = 3
    /\ export.rows[2][1] = 0
    /\ export.rows[3][1] = 1
    /\ SubSeq(export.rows[2], 4, 5) # SubSeq(export.rows[3], 4, 5)

\* the rows were built for an empty store
C11_WitnessEmpty ==
    /\ export.pc = "rows"
    /\ data = <<>>
    /\ Len(export.rows) = 1

(* C15: every change of the store is followed by a render that completes
   before the next interaction: in the state in which the next interaction
   can happen the render has not raised and the overlay shows one curve for
   every point of the changed store, sampled at its coordinates. *)
C15_EveryMutationIsRendered ==
    [][data' # data =>
          /\ ~raised'
          /\ Len(overlay') = Len(data')
          /\ \A i \in 1..Len(data') :
                overlay'[i].series = sel(data'[i].x, data'[i].y)]_vars

(* C16: the export file is written by the cell that writes the csv and by
   nothing else: no tap, drag, removal, pointer move or render, and not the
   cell that builds the rows, creates or changes it; what the cell writes are
   the rows built before it. *)
C16_OnlyTheWriteCellWritesTheFile ==
    [][export'.csv # export.csv => (WriteCellRuns /\ export'.csv = export.rows)]_vars

\* the file was written, and the store has changed since without the file following
C16_Witness ==
    /\ export.pc = "write"
    /\ export.error = "none"
    /\ export.attempts = 1
    /\ export.csv = export.rows
    /\ Len(export.csv) = 2
    /\ Len(data) = 0
    /\ lastOp.op = "remove"

(* C17: when the directory of the export file is missing or is no directory,
   the cell that writes the csv fails with an error the user sees; it opens
   the file once and not again, and the store, the rows and the file are
   as they were. *)
C17_WriteFailsOnceAndLeavesStore ==
    [][(WriteCellRuns /\ export'.attempts # export.attempts /\ export.dir # "directory") =>
          /\ export'.error \in {"FileNotFoundError", "NotADirectoryError"}
          /\ export'.attempts = export.attempts + 1
          /\ export'.csv = export.csv
          /\ export'.rows = export.rows
          /\ UNCHANGED storeVars]_vars

\* the write was tried with the directory missing, and the plot was used afterwards
C17_Witness ==
    /\ export.pc = "write"
    /\ export.dir = "missing"
    /\ export.error = "FileNotFoundError"
    /\ export.attempts = 1
    /\ export.csv = <<>>

----------------------------------------------------------------------------
(* C12: for every query (x, y), in the extent of the grid or outside it, the
   sampler returns, without an error, the whole series of the cell whose
   longitude is nearest to x and whose latitude is nearest to y, each axis
   on its own; a query outside the extent gets an edge cell. *)
C12_SamplerReturnsNearestCell ==
    /\ Len(hover.series) = Len(Wavelengths)
    /\ \E j \in 1..Len(Latitude), i \in 1..Len(Longitude) :
          /\ IsNearest(Latitude, j, hover.y)
          /\ IsNearest(Longitude, i, hover.x)
          /\ hover.series = reflectance[j][i]

\* a query beyond the north-west corner got the spectrum of the corner cell
C12_Witness ==
    /\ hover.x < Longitude[1]
    /\ hover.y > Latitude[1]
    /\ hover.series = reflectance[1][1]

(* C13: sampling the same coordinates again gives the same series: two points
   of the store at the same coordinates show the same series, and a point
   that stays where it is shows the same series in the next render, whatever
   happened to the store in between. *)
C13_SameCoordinatesSameSeries ==
    /\ [](~raised =>
            \A i, j \in 1..Len(data) :
                <<data[i].x, data[i].y>> = <<data[j].x, data[j].y>>
                    => overlay[i].series = overlay[j].series)
    /\ [][(~raised /\ ~raised') =>
            \A i \in 1..Len(data), j \in 1..Len(data') :
                <<data[i].x, data[i].y>> = <<data'[j].x, data'[j].y>>
                    => overlay'[j].series = overlay[i].series]_vars

\* the first point now lies where the second was tapped, after a removal and with a full store
C13_Witness ==
    /\ ~raised
    /\ removed >= 1
    /\ Len(data) = POINT_LIMIT
    /\ <<data[1].x, data[1].y>> = <<data[2].x, data[2].y>>
    /\ <<data[1].x, data[1].y>> # <<data[3].x, data[3].y>>

(* C14, as claimed: a render has no side effect on the store: ids,
   coordinates, order and count of the rows are after the render what the
   stream handed to it. *)
C14_RenderLeavesStoreAsItWas ==
    ~raised => data = sent

(* C14, amended: a render leaves the coordinates, the order and the count of
   the rows as the stream handed them to it, and writes the id column: after
   the render the id of every row is its place in the list, counted from 0,
   whatever it was before. *)
C14_RenderRewritesIdsOnly ==
    ~raised =>
        /\ Len(data) = Len(sent)
        /\ \A i \in 1..Len(data) :
              /\ data[i].x = sent[i].x
              /\ data[i].y = sent[i].y
              /\ data[i].serial = sent[i].serial
              /\ data[i].id = i - 1

\* the render after a removal has changed the id of a row
C14_Witness ==
    /\ ~raised
    /\ lastOp.op = "remove"
    /\ \E i \in 1..Len(data) : sent[i].id = i /\ data[i].id = i - 1

(* C18: a quality word of ECOSTRESS is good exactly when its bits 0 and 1 are
   both 0, that is when the word is a multiple of 4; a pixel of the land
   surface temperature keeps its value after the quality filter exactly when
   the quality word of the pixel is good, and is missing otherwise. *)
C18_QualityFilterKeepsMultiplesOfFour ==
    eco.pc # "clipped" =>
        /\ \A q \in unique(eco.eco_qc_roi) : q \in eco.good_q <=> q % 4 = 0
        /\ \A p \in 1..EcoPixels :
              /\ eco.eco_qc_roi[p] % 4 = 0 => eco.eco_lst_roi_mask[p] = eco.eco_lst_roi[p]
              /\ eco.eco_qc_roi[p] % 4 # 0 => eco.eco_lst_roi_mask[p] = nan

\* the filter kept a pixel whose word has a high bit set and blanked one of nominal quality
C18_Witness ==
    /\ eco.pc = "quality"
    /\ \E p, r \in 1..EcoPixels :
          /\ eco.eco_qc_roi[p] > 3
          /\ eco.eco_lst_roi_mask[p] # nan
          /\ eco.eco_qc_roi[r] = 1
          /\ eco.eco_lst_roi[r] # nan
          /\ eco.eco_lst_roi_mask[r] = nan

(* C19: the scene shown in the thermal explorer and the scene written to the
   output raster have a value only at pixels that pass both the quality
   filter and the cloud filter (cloud mask 0). *)
C19_ShownAndWrittenPassBothFilters ==
    /\ eco.pc \in {"explorer", "written"} =>
          \A p \in 1..EcoPixels :
              eco.base_data[p] # nan => (eco.eco_qc_roi[p] % 4 = 0 /\ eco.eco_cl_roi[p] = 0)
    /\ eco.pc = "written" =>
          \A p \in 1..EcoPixels :
              eco.raster[p] # nan => (eco.eco_qc_roi[p] % 4 = 0 /\ eco.eco_cl_roi[p] = 0)

\* the pixel at the smallest distance from (x, y) on both axes is flagged in the mask
SampledAtFlagged ==
    \E j \in 1..Len(Latitude), i \in 1..Len(Longitude) :
        /\ IsNearest(Latitude, j, emit.sample.y)
        /\ IsNearest(Longitude, i, emit.sample.x)
        /\ emit.mask[j][i] = 1

(* C20: applying the quality mask of EMIT sets the reflectance of every band
   to nan at the pixels whose mask value is 1 and leaves every other pixel as
   it was; a spectrum sampled afterwards at a pixel with mask value 1 is nan
   in every band. *)
C20_MaskBlanksFlaggedPixelsOnly ==
    emit.pc = "masked" =>
        /\ \A j \in 1..Len(Latitude), i \in 1..Len(Longitude) :
              /\ emit.mask[j][i] = 1 =>
                    /\ Len(emit.reflectance[j][i]) = Len(Wavelengths)
                    /\ \A w \in 1..Len(Wavelengths) : emit.reflectance[j][i][w] = nan
              /\ emit.mask[j][i] # 1 => emit.reflectance[j][i] = reflectance[j][i]
        /\ (emit.sample.series # <<>> /\ SampledAtFlagged) =>
              emit.sample.series = [w \in 1..Len(Wavelengths) |-> nan]

\* a spectrum was sampled at a flagged pixel next to a pixel holding the fill value
C20_Witness ==
    /\ emit.pc = "masked"
    /\ emit.sample.series = [w \in 1..Len(Wavelengths) |-> nan]
    /\ emit.mask[1][1] = 1
    /\ emit.mask[1][2] \notin {0, 1}
    /\ emit.reflectance[1][2] = reflectance[1][2]

(* C25: after every render the ids in the store are 0, 1, ..., n-1 in list
   order: the point at place i has id i, so no two points of the store have
   the same id; and the id written into the export row of a point is the
   place the point had at the last render before the rows were built. *)
C25_IdsAreThePlacesInTheList ==
    /\ [](/\ \A i \in 1..Len(data) : data[i].id = i - 1
          /\ \A i, j \in 1..Len(data) : data[i].id = data[j].id => i = j)
    /\ [][RowsCellRuns =>
            \A k \in 1..Len(data) :
                /\ export'.rows[k + 1][1] = k - 1
                /\ <<export'.rows[k + 1][2], export'.rows[k + 1][3]>> = <<data[k].x, data[k].y>>]_vars

\* the second point created was exported with id 0, after the removal of the first
C25_Witness ==
    /\ export.pc = "rows"
    /\ lastOp.op = "remove"
    /\ Len(data) = 1
    /\ data[1].serial = 2
    /\ Len(export.rows) = 2
    /\ export.rows[2][1] = 0
    /\ <<export.rows[2][2], export.rows[2][3]>> = <<data[1].x, data[1].y>>
    /\ <<data[1].x, data[1].y>> # <<x_start, y_start>>

(* C26: a session starts with exactly one point in the store, the pixel in
   the centre of the scene, with id 0, and the first render shows exactly
   one curve, the spectrum of that pixel; as long as nothing is removed the
   store is full exactly when POINT_LIMIT - 1 further points have been
   added. *)
C26_SessionStartsWithTheCentrePoint ==
    /\ lastOp.op = "init" =>
          /\ Len(data) = 1
          /\ data[1].x = Longitude[(Len(Longitude) \div 2) + 1]
          /\ data[1].y = Latitude[(Len(Latitude) \div 2) + 1]
          /\ data[1].id = 0
          /\ ~raised
          /\ Len(overlay) = 1
          /\ overlay[1].series =
                reflectance[(Len(Latitude) \div 2) + 1][(Len(Longitude) \div 2) + 1]
    /\ removed = 0 =>
          /\ Len(data) < POINT_LIMIT => Len(data) = created
          /\ Len(data) = POINT_LIMIT <=> created - 1 >= POINT_LIMIT - 1

\* nine taps after the start the store is full and still begins with the centre point
C26_Witness ==
    /\ created = POINT_LIMIT
    /\ removed = 0
    /\ dragged = 0
    /\ Len(data) = POINT_LIMIT
    /\ <<data[1].x, data[1].y, data[1].id>> = <<x_start, y_start, 0>>

(* C21: gamma-adjusting the RGB image does not change the reflectance cube:
   the cube is after gamma_adjust what it was before, and a spectrum sampled
   from it at any location, in the grid or outside it, is the same before
   and after. *)
C21_GammaAdjustLeavesTheCube ==
    [][(rgb.pc = "selected" /\ rgb'.pc = "adjusted") =>
          /\ emit'.reflectance = emit.reflectance
          /\ \A x \in HoverXs, y \in HoverYs :
                SelIn(emit'.reflectance, x, y) = SelIn(emit.reflectance, x, y)]_vars

\* the image was adjusted: a pixel of it differs from the cube, a flagged pixel is blank,
\* and the spectrum sampled from the cube is still that of the cube as read
C21_Witness ==
    /\ rgb.pc = "adjusted"
    /\ emit.mask[1][1] = 1
    /\ emit.mask[1][2] = 0
    /\ rgb.data[1][2][1] \notin {nan, emit.reflectance[1][2][get_nearest_indexer(Wavelengths, RgbWavelengths[1])]}
    /\ emit.sample.x < Longitude[2]
    /\ emit.sample.series = reflectance[1][2]

(* C24: the land surface temperature, the quality layer and the cloud layer
   that the filters combine, and the name of the output file, all come from
   the same granule, that is from the same position in the search results. *)
C24_AllLayersFromOneGranule ==
    /\ eco.opened.qc.granule = eco.opened.lst.granule
    /\ eco.opened.cl.granule = eco.opened.lst.granule
    /\ eco.pc = "written" => eco.out_name.granule = eco.opened.lst.granule

\* the pixels of base_data that hold a temperature
ValidPixels == {p \in 1..EcoPixels : eco.base_data[p] # nan}

(* C27: whatever units were selected before, the map and the statistics panel
   of the thermal explorer show the quality-filtered data in the unit selected
   now: Celsius is kelvin - 273.15, Fahrenheit is Celsius * 9/5 + 32, Kelvin
   is the data itself; a selection never changes the quality-filtered kelvin
   data, and the number of valid pixels reported is the same in every unit,
   the number of pixels that hold a temperature. *)
C27_ExplorerShowsTheSelectedUnit ==
    /\ [](eco.pc \in {"explorer", "written"} =>
            /\ eco.base_data = eco.eco_lst_roi_mask
            /\ eco.unit \in {"Celsius", "Fahrenheit", "Kelvin"}
            /\ eco.stats.unit_label = (CASE eco.unit = "Celsius" -> "C"
                                         [] eco.unit = "Fahrenheit" -> "F"
                                         [] eco.unit = "Kelvin" -> "K")
            /\ \A p \in 1..EcoPixels :
                  /\ eco.base_data[p] = nan <=> eco.map[p] = nan
                  /\ (eco.base_data[p] # nan /\ eco.unit = "Kelvin") =>
                        eco.map[p] = 100 * eco.base_data[p]
                  /\ (eco.base_data[p] # nan /\ eco.unit = "Celsius") =>
                        eco.map[p] + 27315 = 100 * eco.base_data[p]
                  /\ (eco.base_data[p] # nan /\ eco.unit = "Fahrenheit") =>
                        5 * (eco.map[p] - 3200) = 9 * ((100 * eco.base_data[p]) - 27315)
            /\ eco.stats.valid_pixels = Cardinality(ValidPixels)
            /\ ValidPixels # {} =>
                  /\ \E p \in ValidPixels : eco.stats.minimum = eco.map[p]
                  /\ \A p \in ValidPixels : eco.stats.minimum <= eco.map[p]
                  /\ \E p \in ValidPixels : eco.stats.maximum = eco.map[p]
                  /\ \A p \in ValidPixels : eco.stats.maximum >= eco.map[p])
    /\ [][(eco.pc \in {"explorer", "written"} /\ eco'.unit # eco.unit) =>
            /\ eco'.base_data = eco.base_data
            /\ eco'.eco_lst_roi_mask = eco.eco_lst_roi_mask
            /\ eco'.stats.valid_pixels = eco.stats.valid_pixels]_vars

\* Fahrenheit is selected: one pixel shows 80.33 degrees, another is blank
C27_Witness ==
    /\ eco.pc = "written"
    /\ eco.unit = "Fahrenheit"
    /\ eco.stats.valid_pixels = 1
    /\ \E p, r \in 1..EcoPixels :
          /\ eco.base_data[p] = 300
          /\ eco.map[p] = 8033
          /\ eco.eco_lst_roi[r] # nan
          /\ eco.map[r] = nan

\* the record that a call of interactive_click at (x, y) is to append
IsRecordOf(r, x, y) ==
    /\ r.Lon = x
    /\ r.Lat = y
    /\ \E j \in 1..Len(Latitude), i \in 1..Len(Longitude) :
          /\ IsNearest(Latitude, j, y)
          /\ IsNearest(Longitude, i, x)
          /\ r.NDVI = NDVI_vineyard_projected[j][i]
          /\ r.ST = ST_vineyard_projected[j][i]
          /\ r.ET = ET_vineyard_projected[j][i]
          /\ r.EWT = EWT_vineyard_projected[j][i]

(* C22: in the vineyard click map every tap with coordinates appends exactly
   one record to the click log, with Lon and Lat of the tap and the NDVI, ST,
   ET and EWT values of the cell nearest to it; a call of the callback with x
   or y None appends nothing; and no step changes or removes a record that
   is in the log. *)
C22_TapAppendsOneRecord ==
    /\ [][vineyard'.calls # vineyard.calls =>
            IF EmptyValue \in {vineyard'.x, vineyard'.y}
            THEN vineyard'.clicked_values = vineyard.clicked_values
            ELSE /\ Len(vineyard'.clicked_values) = Len(vineyard.clicked_values) + 1
                 /\ IsRecordOf(vineyard'.clicked_values[Len(vineyard'.clicked_values)],
                               vineyard'.x, vineyard'.y)]_vars
    /\ [][/\ Len(vineyard'.clicked_values) >= Len(vineyard.clicked_values)
          /\ \A k \in 1..Len(vineyard.clicked_values) :
                vineyard'.clicked_values[k] = vineyard.clicked_values[k]]_vars

\* the display and two taps, the second outside the grid: two records
C22_Witness ==
    /\ vineyard.calls = 3
    /\ Len(vineyard.clicked_values) = 2
    /\ vineyard.clicked_values[1].Lon = 12
    /\ vineyard.clicked_values[1].NDVI = NDVI_vineyard_projected[1][1]
    /\ vineyard.x > Longitude[2]
    /\ vineyard.clicked_values[2].Lon = vineyard.x
    /\ vineyard.clicked_values[2].EWT = EWT_vineyard_projected[2][2]

\* the step is a run of the cell that saves the clicked values
SaveCellRuns == vineyard'.saves # vineyard.saves

(* C23: the cell that saves the click log writes the csv only when the log
   is not empty, a header and one line per record in the order of the clicks;
   with an empty log no file is made or overwritten and 'No clicked values to
   save.' is printed; nothing else writes the file. *)
C23_SaveWritesOnlyANonEmptyLog ==
    [][/\ SaveCellRuns =>
            IF vineyard.clicked_values # <<>>
            THEN /\ Len(vineyard'.csv) = 1 + Len(vineyard.clicked_values)
                 /\ \A k \in 1..Len(vineyard.clicked_values) :
                       /\ vineyard'.csv[k + 1][1] = vineyard.clicked_values[k].Lon
                       /\ vineyard'.csv[k + 1][2] = vineyard.clicked_values[k].Lat
                       /\ vineyard'.csv[k + 1][3] = vineyard.clicked_values[k].NDVI
                       /\ vineyard'.csv[k + 1][4] = vineyard.clicked_values[k].ST
                       /\ vineyard'.csv[k + 1][5] = vineyard.clicked_values[k].ET
                       /\ vineyard'.csv[k + 1][6] = vineyard.clicked_values[k].EWT
                 /\ vineyard'.printed # "No clicked values to save."
            ELSE /\ vineyard'.csv = vineyard.csv
                 /\ vineyard'.printed = "No clicked values to save."
       /\ vineyard'.csv # vineyard.csv => SaveCellRuns]_vars

\* the cell ran on an empty log: the message, and the file of the earlier session as it was
C23_Witness ==
    /\ vineyard.saves = 1
    /\ vineyard.clicked_values = <<>>
    /\ vineyard.printed = "No clicked values to save."
    /\ vineyard.csv = OldCsv

\* the cell ran on a log of two records after it had run on the empty log
C23_WitnessSaved ==
    /\ vineyard.saves = 2
    /\ Len(vineyard.clicked_values) = 2
    /\ Len(vineyard.csv) = 3
    /\ vineyard.csv[3][1] = vineyard.clicked_values[2].Lon
    /\ vineyard.printed = "Clicked values saved to 'clicked_values.csv'"

(* C28: the download cell writes the local file only when the file does not
   exist, and whenever the cell has finished the local file is a complete
   copy of the remote granule, also when an earlier run of the cell was
   interrupted in the middle of the download. *)
C28_FinishedDownloadIsComplete ==
    /\ [](download.pc = "finished" =>
            (download.file.exists /\ download.file.content = download.remote))
    /\ [][download'.file # download.file =>
            \/ (download'.opened = download.opened + 1 /\ ~download.file.exists)
            \/ download.pc = "downloading"]_vars

====
